---- MODULE Spec2Model ----
(***************************************************************************)
(* Model of icon/mat.py: the point-string parser mat and the two 3x3       *)
(* transform builders rotate_mat and translate_mat.                        *)
(*                                                                         *)
(* A string is a sequence of one-character strings.  A parsed float is     *)
(* the decimal it denotes, [m |-> mantissa, e |-> fraction digits]: the    *)
(* literals of the alphabet below have at most MaxLen significant digits   *)
(* and no digit 0, so two literals denote the same double exactly when     *)
(* they give the same record.  The whole-number floats of the 3x3          *)
(* matrices are integers.  NumPy arrays live on a heap of array objects;   *)
(* a function returns a reference (an index of the heap).                  *)
(***************************************************************************)
EXTENDS Integers, Sequences, FiniteSets

VARIABLES
    numpy,   \* the installed NumPy's treatment of ragged rows
    input,   \* the call about to be made: the function and its arguments
    heap,    \* the array objects allocated so far
    hist,    \* the calls that have returned or raised, in order
    writes   \* the references whose entries the caller has overwritten

vars == <<numpy, input, heap, hist, writes>>

\* ------------------------------------------------------------------ bounds
MaxLen == 4       \* longest input string drawn character by character
MaxTokens == 4    \* most tokens of an input string joined from sample tokens
MaxTurns == 5     \* angles are the multiples of 90 in -90*MaxTurns..90*MaxTurns
MaxOffset == 2    \* offsets and point coordinates are in -MaxOffset..MaxOffset
MaxCalls == 2     \* calls in one run of SpecHeap
MaxWrites == 1    \* caller overwrites in one run of SpecHeap

\* ----------------------------------------------------------------- strings
Whitespace == {" "}
Digits == {"1", "2"}
Alphabet == Whitespace \cup Digits \cup {"-", ".", "x"}

StringsUpTo(n) == UNION {[1..k -> Alphabet] : k \in 0..n}

\* str.split() without arguments: the maximal runs of non-whitespace
\* characters, in order; leading, trailing and repeated whitespace yield no
\* empty token.
RECURSIVE SplitFrom(_, _, _)
SplitFrom(s, cur, acc) ==
    IF s = <<>>
    THEN IF cur = <<>> THEN acc ELSE Append(acc, cur)
    ELSE IF Head(s) \in Whitespace
         THEN SplitFrom(Tail(s), <<>>, IF cur = <<>> THEN acc ELSE Append(acc, cur))
         ELSE SplitFrom(Tail(s), Append(cur, Head(s)), acc)

\* msg.split(" "): every single blank separates, and empty fields are kept.
RECURSIVE SplitOnBlank(_, _, _)
SplitOnBlank(s, cur, acc) ==
    IF s = <<>>
    THEN Append(acc, cur)
    ELSE IF Head(s) \in Whitespace
         THEN SplitOnBlank(Tail(s), <<>>, Append(acc, cur))
         ELSE SplitOnBlank(Tail(s), Append(cur, Head(s)), acc)

str_split_blank(msg) == SplitOnBlank(msg, <<>>, <<>>)

str_split(msg) == SplitFrom(msg, <<>>, <<>>)

\* ------------------------------------------------------------------ float()
DigitVal(ch) == IF ch = "1" THEN 1 ELSE 2

Unsigned(tok) == IF tok # <<>> /\ Head(tok) = "-" THEN Tail(tok) ELSE tok

DigitsOf(s) == SelectSeq(s, LAMBDA ch : ch \in Digits)

DotAt(s) == IF \E i \in 1..Len(s) : s[i] = "."
            THEN CHOOSE i \in 1..Len(s) : s[i] = "."
            ELSE 0

\* float() accepts [sign] (digits [. [digits]] | . digits): after the sign,
\* only digits and at most one point, and at least one digit.
IsNumber(tok) ==
    LET u == Unsigned(tok) IN
    /\ \A i \in 1..Len(u) : u[i] \in Digits \cup {"."}
    /\ Cardinality({i \in 1..Len(u) : u[i] = "."}) <= 1
    /\ DigitsOf(u) # <<>>

RECURSIVE Mantissa(_, _)
Mantissa(ds, acc) ==
    IF ds = <<>> THEN acc ELSE Mantissa(Tail(ds), 10 * acc + DigitVal(Head(ds)))

\* The value float(tok) of a numeric token.
py_float(tok) ==
    LET u == Unsigned(tok)
        m == Mantissa(DigitsOf(u), 0)
    IN  [m |-> IF tok # <<>> /\ Head(tok) = "-" THEN 0 - m ELSE m,
         e |-> IF DotAt(u) = 0 THEN 0 ELSE Len(u) - DotAt(u)]

\* A comprehension that skips the tokens float() rejects.
ParseAllSkipping(tokens) ==
    [status |-> "ok",
     l |-> LET good == SelectSeq(tokens, IsNumber)
           IN  [i \in 1..Len(good) |-> py_float(good[i])]]

\* [float(v) for v in tokens]: float raises ValueError at the first token
\* that is no number, and the comprehension yields nothing.
ParseAll(tokens) ==
    IF \A i \in 1..Len(tokens) : IsNumber(tokens[i])
    THEN [status |-> "ok", l |-> [i \in 1..Len(tokens) |-> py_float(tokens[i])]]
    ELSE [status |-> "error", l |-> <<>>]

\* ------------------------------------------------------------------ slices
\* l[start::2] with start in {0, 1}.
Stride2(l, start) ==
    [i \in 1..((Len(l) - start + 1) \div 2) |-> l[start + 2 * i - 1]]

\* The first floor(len(l)/2) elements of l[start::2].
Stride2Paired(l, start) ==
    [i \in 1..(Len(l) \div 2) |-> l[start + 2 * i - 1]]

\* l[:len(l) // 2 * 2:2]: the even-indexed elements that have a partner.
EvensPaired(l) == Stride2Paired(l, 0)

\* l[::2]
Evens(l) == Stride2(l, 0)

\* l[1::2]
Odds(l) == Stride2(l, 1)

\* [l[1::2], l[::2]]: the two slices exchanged.
RowsSwapped(l) == <<Odds(l), Evens(l)>>

\* [l[::2], l[1::2]]
Rows(l) == <<Evens(l), Odds(l)>>

\* ------------------------------------------------------------------- numpy
\* np.array of two lists.  Lists of one length give a 2 x N float64 array.
\* Ragged lists are rejected with ValueError by NumPy from 1.24 on
\* ("strict") and give a one-dimensional object array of the two lists in
\* older releases ("legacy").
np_array(rows) ==
    IF Len(rows[1]) = Len(rows[2])
    THEN [status |-> "ok",
          arr |-> [dtype |-> "float64", shape |-> <<2, Len(rows[1])>>, data |-> rows]]
    ELSE IF numpy = "strict"
         THEN [status |-> "error", arr |-> <<>>]
         ELSE [status |-> "ok",
               arr |-> [dtype |-> "object", shape |-> <<2>>, data |-> rows]]

Eye3 == [dtype |-> "float64", shape |-> <<3, 3>>,
         data |-> <<<<1, 0, 0>>, <<0, 1, 0>>, <<0, 0, 1>>>>]

\* An np.eye that hands out one module-level identity array again and again.
np_eye_cached(h) ==
    IF h # <<>> /\ h[1].shape = <<3, 3>>
    THEN [heap |-> h, ref |-> 1]
    ELSE [heap |-> Append(h, Eye3), ref |-> Len(h) + 1]

\* np.eye(3, 3): a newly allocated 3 x 3 identity.
np_eye(h) == [heap |-> Append(h, Eye3), ref |-> Len(h) + 1]

\* mat[i, j] = v, with the 1-based indices of TLA+ sequences.
SetItem(h, ref, i, j, v) == [h EXCEPT ![ref].data[i][j] = v]

\* mat[:2, :2] = block
SetBlock(h, ref, block) ==
    [h EXCEPT ![ref].data =
        [i \in 1..3 |-> [j \in 1..3 |->
            IF i <= 2 /\ j <= 2 THEN block[i][j] ELSE @[i][j]]]]

\* np.radians on a multiple of 90 degrees, in units of pi/2.
np_radians(angle) == angle \div 90

\* np.cos and np.sin of theta * pi/2, as the exact real values.
np_cos(theta) == <<1, 0, -1, 0>>[(theta % 4) + 1]
np_sin(theta) == <<0, 1, 0, -1>>[(theta % 4) + 1]

\* --------------------------------------------------------------- functions
\* The result of a call: the heap after it, whether it returned or raised,
\* what raised, and the reference returned (0 when it raised).
Returned(h, ref) == [heap |-> h, status |-> "ok", raisedBy |-> "", ref |-> ref]
Raised(h, by) == [heap |-> h, status |-> "error", raisedBy |-> by, ref |-> 0]

mat(h, msg) ==
    LET parsed == ParseAll(str_split(msg)) IN
    IF parsed.status = "error"
    THEN Raised(h, "float")
    ELSE LET made == np_array(Rows(parsed.l)) IN
         IF made.status = "error"
         THEN Raised(h, "np.array")
         ELSE Returned(Append(h, made.arr), Len(h) + 1)

\* c, s = np.sin(theta), np.sin(theta)
CosSinBothSin(theta) == <<np_sin(theta), np_sin(theta)>>

\* c, s = np.cos(theta), np.sin(theta)
CosSin(theta) == <<np_cos(theta), np_sin(theta)>>

\* ((c, s), (-s, c)): the transposed block.
RotationBlockTransposed(c, s) == <<<<c, s>>, <<0 - s, c>>>>

\* np.array(((c, -s), (s, c)))
RotationBlock(c, s) == <<<<c, 0 - s>>, <<s, c>>>>

\* The temporary 2 x 2 array is copied into the block and then dropped; it
\* is never returned and is left off the heap.
rotate_mat(h, angle) ==
    LET theta == np_radians(angle)
        cs == CosSin(theta)
        m == np_eye(h)
    IN  Returned(SetBlock(m.heap, m.ref, RotationBlock(cs[1], cs[2])), m.ref)

\* mat[0, 2] = y; mat[1, 2] = x
translate_mat_swapped(h, x, y) ==
    LET m == np_eye(h) IN
    Returned(SetItem(SetItem(m.heap, m.ref, 1, 3, y), m.ref, 2, 3, x), m.ref)

translate_mat(h, x, y) ==
    LET m == np_eye(h) IN
    Returned(SetItem(SetItem(m.heap, m.ref, 1, 3, x), m.ref, 2, 3, y), m.ref)

\* ------------------------------------------------------------------ inputs
SampleTokens == {<<"1">>, <<"2">>, <<"-", "1">>, <<".", "2">>, <<"x">>}

RECURSIVE Join(_)
Join(ts) ==
    IF ts = <<>> THEN <<>>
    ELSE IF Len(ts) = 1 THEN ts[1]
    ELSE ts[1] \o <<" ">> \o Join(Tail(ts))

JoinedUpTo(n) == {Join(ts) : ts \in UNION {[1..k -> SampleTokens] : k \in 0..n}}

MatInputs == StringsUpTo(MaxLen) \cup JoinedUpTo(MaxTokens)
Angles == {90 * k : k \in (0 - MaxTurns)..MaxTurns}
Offsets == (0 - MaxOffset)..MaxOffset

\* The arguments of the runs of several calls.
HeapMsgs == {<<"1", " ", "2">>, <<"1", " ", "2", " ", "1">>, <<"x">>}
HeapAngles == {90}
HeapOffsets == {<<1, 2>>, <<0, 0>>}

NoInput == [fn |-> "none", args |-> <<>>]

\* ----------------------------------------------------------------- actions
\* A finished call: its function and arguments, its outcome, and a copy of
\* the returned array as it was at the return.
Done(r) ==
    [fn |-> input.fn, args |-> input.args, status |-> r.status,
     raisedBy |-> r.raisedBy, ref |-> r.ref,
     val |-> IF r.status = "ok" THEN r.heap[r.ref] ELSE <<>>]

Finish(r) ==
    /\ heap' = r.heap
    /\ hist' = Append(hist, Done(r))
    /\ input' = NoInput
    /\ UNCHANGED <<numpy, writes>>

CallMat ==
    /\ input.fn = "mat"
    /\ Finish(mat(heap, input.args[1]))

CallRotateMat ==
    /\ input.fn = "rotate_mat"
    /\ Finish(rotate_mat(heap, input.args[1]))

CallTranslateMat ==
    /\ input.fn = "translate_mat"
    /\ Finish(translate_mat(heap, input.args[1], input.args[2]))

\* The caller picks the next call.
Choose ==
    /\ input = NoInput
    /\ Len(hist) < MaxCalls
    /\ \/ \E msg \in HeapMsgs : input' = [fn |-> "mat", args |-> <<msg>>]
       \/ \E a \in HeapAngles : input' = [fn |-> "rotate_mat", args |-> <<a>>]
       \/ \E o \in HeapOffsets : input' = [fn |-> "translate_mat", args |-> o]
    /\ UNCHANGED <<numpy, heap, hist, writes>>

\* The value the caller writes: one that none of the calls produces.
Scribble(arr) == IF arr.shape = <<3, 3>> THEN 7 ELSE [m |-> 7, e |-> 0]

\* The caller overwrites one entry of an array some call returned.
Overwrite ==
    /\ input = NoInput
    /\ Len(writes) < MaxWrites
    /\ \E k \in 1..Len(hist) :
         /\ hist[k].status = "ok"
         /\ LET ref == hist[k].ref IN
            \E i \in 1..Len(heap[ref].data) :
              \E j \in 1..Len(heap[ref].data[i]) :
                /\ heap' = SetItem(heap, ref, i, j, Scribble(heap[ref]))
                /\ writes' = Append(writes, ref)
    /\ UNCHANGED <<numpy, input, hist>>

\* ---------------------------------------------------------- specifications
InitCommon ==
    /\ numpy \in {"strict", "legacy"}
    /\ heap = <<>>
    /\ hist = <<>>
    /\ writes = <<>>

\* One call, its arguments drawn from the input sets.
Init ==
    /\ InitCommon
    /\ \/ \E msg \in MatInputs : input = [fn |-> "mat", args |-> <<msg>>]
       \/ \E a \in Angles : input = [fn |-> "rotate_mat", args |-> <<a>>]
       \/ \E x, y \in Offsets : input = [fn |-> "translate_mat", args |-> <<x, y>>]

Next == CallMat \/ CallRotateMat \/ CallTranslateMat

Spec == Init /\ [][Next]_vars

\* Up to MaxCalls calls, with the caller overwriting entries in between.
InitHeap == InitCommon /\ input = NoInput

NextHeap == Choose \/ CallMat \/ CallRotateMat \/ CallTranslateMat \/ Overwrite

SpecHeap == InitHeap /\ [][NextHeap]_vars

\* ------------------------------------------------- reference definitions
\* The tokens of a string, stated without str_split: a token starts at a
\* non-whitespace character that is first or follows whitespace, and runs to
\* the last non-whitespace character before the next whitespace or the end.
TokenStarts(msg) ==
    {i \in 1..Len(msg) : msg[i] \notin Whitespace /\ (i = 1 \/ msg[i - 1] \in Whitespace)}

NthStart(msg, k) ==
    CHOOSE i \in TokenStarts(msg) : Cardinality({j \in TokenStarts(msg) : j < i}) = k - 1

TokenEnd(msg, i) ==
    CHOOSE j \in i..Len(msg) :
        /\ \A t \in i..j : msg[t] \notin Whitespace
        /\ (j = Len(msg) \/ msg[j + 1] \in Whitespace)

TokensOf(msg) ==
    [k \in 1..Cardinality(TokenStarts(msg)) |->
        SubSeq(msg, NthStart(msg, k), TokenEnd(msg, NthStart(msg, k)))]

AllNumbers(ts) == \A i \in 1..Len(ts) : IsNumber(ts[i])

\* Matrix times column vector, for a 3 x 3 matrix.
MatVec(M, v) == [i \in 1..3 |-> M[i][1] * v[1] + M[i][2] * v[2] + M[i][3] * v[3]]

\* Cosine and sine of a multiple of 90 degrees.
CosDeg(a) == IF a % 360 = 0 THEN 1 ELSE IF a % 360 = 180 THEN -1 ELSE 0
SinDeg(a) == IF a % 360 = 90 THEN 1 ELSE IF a % 360 = 270 THEN -1 ELSE 0

Calls == 1..Len(hist)
MatCalls == {k \in Calls : hist[k].fn = "mat"}
RotateCalls == {k \in Calls : hist[k].fn = "rotate_mat"}
TranslateCalls == {k \in Calls : hist[k].fn = "translate_mat"}

C2_InvalidTokenRaises ==
    \A k \in MatCalls :
        ~AllNumbers(TokensOf(hist[k].args[1])) =>
            /\ hist[k].status = "error"
            /\ hist[k].raisedBy = "float"
            /\ hist[k].ref = 0
            /\ hist[k].val = <<>>
            /\ heap = <<>>

\* mat has raised on three tokens of which only the middle one is invalid.
C2_Witness ==
    \E k \in MatCalls :
        LET ts == TokensOf(hist[k].args[1]) IN
        /\ Len(ts) = 3
        /\ IsNumber(ts[1]) /\ ~IsNumber(ts[2]) /\ IsNumber(ts[3])
        /\ hist[k].status = "error"

\* C3: whenever mat returns for valid tokens t[0..n-1], row0[i] = t[2i] and
\* row1[i] = t[2i+1] for every i below floor(n/2): both rows keep the input
\* order and adjacent tokens stay paired column by column.
C3_RowsInterleave ==
    \A k \in MatCalls :
        LET ts == TokensOf(hist[k].args[1]) IN
        (AllNumbers(ts) /\ hist[k].status = "ok") =>
            \A i \in 1..(Len(ts) \div 2) :
                /\ hist[k].val.data[1][i] = py_float(ts[2 * i - 1])
                /\ hist[k].val.data[2][i] = py_float(ts[2 * i])

\* mat has returned for four tokens with four different values.
C3_Witness ==
    \E k \in MatCalls :
        LET ts == TokensOf(hist[k].args[1]) IN
        /\ Len(ts) = 4
        /\ AllNumbers(ts)
        /\ Cardinality({py_float(ts[i]) : i \in 1..4}) = 4
        /\ hist[k].status = "ok"

\* C4: mat applied to the empty string, or to any string without a token,
\* raises no error and returns a matrix of two empty rows (shape 2 x 0).
C4_NoTokensGivesTwoEmptyRows ==
    \A k \in MatCalls :
        (\A i \in 1..Len(hist[k].args[1]) : hist[k].args[1][i] \in Whitespace) =>
            /\ hist[k].status = "ok"
            /\ hist[k].val.shape = <<2, 0>>
            /\ hist[k].val.data = <<<<>>, <<>>>>

\* mat has finished on the empty string.
C4_Witness ==
    \E k \in MatCalls : hist[k].args[1] = <<>> /\ hist[k].ref = 1

\* C5: for all offsets x and y, translate_mat(x, y) returns exactly the
\* 3 x 3 matrix [[1,0,x],[0,1,y],[0,0,1]].
C5_TranslateEntries ==
    \A k \in TranslateCalls :
        /\ hist[k].status = "ok"
        /\ hist[k].val.shape = <<3, 3>>
        /\ hist[k].val.data =
              <<<<1, 0, hist[k].args[1]>>, <<0, 1, hist[k].args[2]>>, <<0, 0, 1>>>>

\* translate_mat(2, -1) has returned.
C5_Witness ==
    \E k \in TranslateCalls : hist[k].args = <<2, -1>> /\ hist[k].status = "ok"

\* C6: for all offsets x, y and all points (px, py), translate_mat(x, y)
\* times the column vector [px, py, 1] is [px + x, py + y, 1].
C6_TranslateMovesPoints ==
    \A k \in TranslateCalls :
        \A px, py \in Offsets :
            MatVec(hist[k].val.data, <<px, py, 1>>) =
                <<px + hist[k].args[1], py + hist[k].args[2], 1>>

\* translate_mat(-2, 1) has returned and moves the point (1, 1) to (-1, 2).
C6_Witness ==
    \E k \in TranslateCalls :
        /\ hist[k].args = <<-2, 1>>
        /\ MatVec(hist[k].val.data, <<1, 1, 1>>) = <<-1, 2, 1>>

\* C7: with c and s the cosine and sine of the angle, rotate_mat returns a
\* 3 x 3 matrix with [0,0] = c, [0,1] = -s, [1,0] = s, [1,1] = c, bottom
\* row exactly [0, 0, 1] and entries [0,2] and [1,2] exactly 0.
C7_RotateEntries ==
    \A k \in RotateCalls :
        LET c == CosDeg(hist[k].args[1])
            s == SinDeg(hist[k].args[1])
        IN  /\ hist[k].status = "ok"
            /\ hist[k].val.shape = <<3, 3>>
            /\ hist[k].val.data = <<<<c, 0 - s, 0>>, <<s, c, 0>>, <<0, 0, 1>>>>

\* rotate_mat(-90) has returned.
C7_Witness ==
    \E k \in RotateCalls : hist[k].args[1] = -90 /\ hist[k].status = "ok"

\* C8: positive angles rotate counter-clockwise: rotate_mat(90) times the
\* column vector [1, 0, 1] is [0, 1, 1], not [0, -1, 1].
C8_QuarterTurnIsCounterClockwise ==
    \A k \in RotateCalls :
        hist[k].args[1] = 90 => MatVec(hist[k].val.data, <<1, 0, 1>>) = <<0, 1, 1>>

\* rotate_mat(90) has returned.
C8_Witness ==
    \E k \in RotateCalls : hist[k].args[1] = 90 /\ hist[k].status = "ok"

\* C9: for every angle (a multiple of 90 degrees), the two columns of the
\* top-left 2 x 2 block of rotate_mat have squared norm 1 and dot product 0.
C9_BlockOrthonormal ==
    \A k \in RotateCalls :
        LET d == hist[k].val.data IN
        /\ d[1][1] * d[1][1] + d[2][1] * d[2][1] = 1
        /\ d[1][2] * d[1][2] + d[2][2] * d[2][2] = 1
        /\ d[1][1] * d[1][2] + d[2][1] * d[2][2] = 0

\* rotate_mat has returned for an angle beyond a full turn.
C9_Witness ==
    \E k \in RotateCalls : hist[k].args[1] > 360 /\ hist[k].val.data[2][1] # 0

\* C10: after any sequence of calls, every returned matrix is a fresh
\* object: no two calls return the same array, an array the caller has not
\* overwritten still holds what it held when it was returned (no overwrite
\* of another array and no later call changed it), and calls with the same
\* arguments give the same result whatever was overwritten in between.
C10_ResultsAreFresh ==
    /\ \A i, j \in Calls :
          (i # j /\ hist[i].status = "ok" /\ hist[j].status = "ok")
              => hist[i].ref # hist[j].ref
    /\ \A i \in Calls :
          (hist[i].status = "ok" /\ \A w \in 1..Len(writes) : writes[w] # hist[i].ref)
              => heap[hist[i].ref] = hist[i].val
    /\ \A i, j \in Calls :
          (hist[i].fn = hist[j].fn /\ hist[i].args = hist[j].args)
              => (hist[i].status = hist[j].status /\ hist[i].val = hist[j].val)

\* The caller has overwritten an entry of the first translate_mat result,
\* and a second call with the same arguments has returned since.
C10_Witness ==
    /\ Len(hist) >= 2
    /\ hist[1].fn = "translate_mat" /\ hist[2].fn = "translate_mat"
    /\ hist[1].args = hist[2].args
    /\ writes = <<hist[1].ref>>
    /\ heap[hist[1].ref] # hist[1].val
    /\ heap[hist[2].ref] = hist[2].val

====
